---- MODULE Spec2Model ----
(***************************************************************************)
(* A model of the crawler worker (lambda/), its seeding CLI (producer/)    *)
(* and the three collaborators it talks to: the SQS frontier queue, the    *)
(* DynamoDB state table and the S3 content bucket.                         *)
(*                                                                         *)
(* Every call to a collaborator is one atomic step; the steps of the       *)
(* workers (Lambda instances) interleave freely.  A call to a collaborator *)
(* may fail (throttling, timeout): the failing outcome is a choice of the  *)
(* step that makes the call.                                               *)
(***************************************************************************)
EXTENDS Integers, Sequences, FiniteSets, TLC

\* ------------------------------------------------------------------ bounds
MaxTime == 2             \* the clock runs 0..MaxTime
MaxAttempts == 2         \* successful claims per URL record
MaxBatch == 2            \* messages per Lambda invocation
MaxFaults == 1           \* calls to a collaborator that fail in one run

\* --------------------------------------------------------- the small world
WORKERS == {"w1", "w2"}
URLS == {"u1", "u2", "u3"}
SEEDS == {"u1"}
\* the sites crawled: "loop" has the seed u1 and the pages u1 and u2 that link
\* to each other; "fork" has the seeds u1 and u2 that both link to u3
WEBS == {"loop", "fork"}
VARIABLE web
DOMAINS == {"https://h1"}
HOSTS == {"h1"}
CrawlDelays == {0, 1}    \* values of CRAWL_DELAY_MS the worker is started with
MaxDepths == {0, 1}      \* values of MAX_DEPTH the worker is started with
defaultCrawlDelay == 1000
\* texts of the environment variable CRAWL_DELAY_MS, as characters; <<>> is
\* the unset or empty variable
EnvTexts == {<<>>, <<"0">>, <<"1">>, <<"-", "1">>, <<"x">>,
             <<"2", "5", "0", "0">>, <<"9", "0", "1", "0", "0", "0">>}
\* values a test gives the field crawlDelayMs of a Crawler it builds itself
TestDelays == {-1, 0, 1}
VARIABLE env             \* os.Getenv("CRAWL_DELAY_MS") when NewCrawler ran
MaxStatus == 599         \* status codes run 0..MaxStatus; 0 is "no response"
\* a status code and what isPermanentHTTPError says of it, once it was asked
VARIABLE classified

\* urls.GetDomain / urls.GetHost: every URL of the model is on one site
GetDomain(u) == "https://h1"
GetHost(u) == "h1"

\* the links parser.Extract finds in the page of a URL
PageLinks(u) ==
    IF web = "fork" THEN (IF u = "u3" THEN <<"u1">> ELSE <<"u3">>)
    ELSE IF u = "u1" THEN <<"u2">> ELSE <<"u1">>

\* the URLs the producer is run with
Seeds == IF web = "fork" THEN {"u1", "u2"} ELSE SEEDS

\* ------------------------------------------------------ program constants
stateQueued == "queued"
stateProcessing == "processing"
stateDone == "done"
stateFailed == "failed"
stateRobotsBlocked == "robots_blocked"
domainStatusActive == "active"
sqsBatchSize == 10
sqsMaxDelaySeconds == 900
\* the status of an allowlist record; "none" for no record
AllowStatuses == {"none", domainStatusActive, "paused", "blocked"}

Absent == "absent"       \* no item under the key
NoStatus == "nostatus"   \* an item without a status attribute
Terminal == {stateDone, stateFailed, stateRobotsBlocked}
NoRec == -1              \* no rate-limit item for the domain
Nil == <<>>              \* Go's nil error

VARIABLES
    rec,            \* state table, URL items: status, attempts, expires_at, s3 keys
    dom,            \* state table, rate-limit items: last_crawled_at
    allow,          \* state table, allowlist items: status
    queue,          \* frontier queue: the messages with a visible copy
    now,            \* wall clock
    crawlDelayMs,   \* Crawler.crawlDelayMs
    maxDepth,       \* Crawler.maxDepth
    pc,             \* each worker's position in Handler / processMessage
    batch,          \* sqsEvent.Records of the invocation
    idx,            \* the loop index of Handler
    loc,            \* processMessage's locals
    log,            \* per message of the batch: what the pipeline did and returned
    tracing,        \* whether log is kept
    running,        \* the workers (Lambda instances) that take invocations
    batchLimit,     \* the most messages the event source puts in one batch
    budget,         \* how many more calls to a collaborator may fail
    prod,           \* the producer CLI: position and URL
    obs,            \* per URL item: counts of the effects made on it
    resv,           \* per domain: the timestamps of the successful reservations
    robotsCache,    \* Crawler.robotsCache: the rules kept per domain
    robotsRet,      \* the last getRobots: its domain, how it ended, its return
    page,           \* the parser's input: the nodes of the body and the base URL
    parsed,         \* what Extract, extractLinks and extractText returned for it
    established,    \* the connections the HTTP client has made: request and address
    lastErr,        \* what the last request of the HTTP client came to
    fan             \* one call of enqueueLinks: its batch loop and what it sent

vars == <<rec, dom, allow, queue, now, crawlDelayMs, maxDepth, tracing, running,
          batchLimit, budget, pc, batch, idx, loc, log, prod, obs, resv,
          robotsCache, robotsRet, page, parsed, established, lastErr, fan, web,
          env, classified>>

storeVars == <<rec, dom, allow>>
workerVars == <<pc, batch, idx, loc, log>>
\* the worker's parts that have a specification of their own; the crawl draws
\* their outcomes as inputs and leaves their state alone
partVars == <<robotsCache, robotsRet, page, parsed, established, lastErr, fan>>
cfgVars == <<crawlDelayMs, maxDepth, tracing, running, batchLimit, web, env,
            partVars, classified>>
\* the state of the crawl
crawlVars == <<rec, dom, allow, queue, now, crawlDelayMs, maxDepth, tracing,
               running, batchLimit, budget, pc, batch, idx, loc, log, prod, obs,
               resv, web, env>>

\* ----------------------------------------------------------------- values
EmptyItem == [status |-> Absent, attempts |-> 0, expires |-> FALSE, s3 |-> FALSE,
              http |-> 0]
NoObs == [claims |-> 0, terminals |-> 0, archives |-> 0, fanouts |-> 0,
          epochWon |-> 0, epochLost |-> 0, retriable |-> FALSE, lateLost |-> 0]

MaxOf(S) == CHOOSE x \in S : \A y \in S : y <= x
DepthAttrs == {<<>>} \cup {<<d>> : d \in 0..MaxOf(MaxDepths)}
Msgs == [url : URLS, depth : DepthAttrs]

\* FetchResult, lambda/fetch.go: html stands for "Content-Type is HTML and the
\* body is not empty", Error for the kind of the error string.
FetchResults ==
    { [Success |-> TRUE,  StatusCode |-> 200, html |-> TRUE,  Error |-> ""],
      [Success |-> TRUE,  StatusCode |-> 200, html |-> FALSE, Error |-> ""],
      [Success |-> FALSE, StatusCode |-> 404, html |-> FALSE, Error |-> ""],
      [Success |-> FALSE, StatusCode |-> 500, html |-> FALSE, Error |-> ""],
      [Success |-> FALSE, StatusCode |-> 429, html |-> FALSE, Error |-> ""],
      [Success |-> FALSE, StatusCode |-> 0,   html |-> FALSE, Error |-> "dial tcp: timeout"],
      [Success |-> FALSE, StatusCode |-> 0,   html |-> FALSE, Error |-> "SSRF blocked"],
      [Success |-> FALSE, StatusCode |-> 200, html |-> FALSE, Error |-> "read error"],
      [Success |-> FALSE, StatusCode |-> 404, html |-> FALSE, Error |-> "read error"] }
NoResult == [Success |-> FALSE, StatusCode |-> -1, html |-> FALSE, Error |-> ""]

\* strconv.Itoa / the %d verb, on the status codes of the model
Itoa(n) ==
    CASE n = 0 -> "0" [] n = 200 -> "200" [] n = 404 -> "404"
      [] n = 429 -> "429" [] n = 500 -> "500" [] OTHER -> "?"

\* an error's text as the list of its pieces; Nil is no error
ErrDynamo == <<"DynamoDB error">>
ErrSQS == <<"SQS error">>
Contains(text, piece) == \E i \in 1..Len(text) : text[i] = piece

\* the calls one run of processMessage has made: to DynamoDB (of which the
\* rate-limit reservations), to the robots rules, to the page's server, to S3
\* and to SQS
NoCalls == [ddb |-> 0, rate |-> 0, robots |-> 0, fetch |-> 0, s3 |-> 0, sqs |-> 0]

InitLoc == [url |-> "", depth |-> 0, result |-> NoResult, li |-> 0,
            pending |-> <<>>, sent |-> 0, enqueued |-> 0, writes |-> 0,
            resetApplied |-> FALSE, applied |-> FALSE, calls |-> NoCalls,
            rules |-> "", upload |-> "", requeue |-> <<>>]

\* extractDepth: the depth attribute, 0 when the message carries none
extractDepth(m) == IF m.depth # <<>> THEN m.depth[1] ELSE 0

\* isPermanentHTTPError with 429 Too Many Requests in the list
isPermanentHTTPError_with429(statusCode) ==
    statusCode \in {400, 401, 403, 404, 405, 410, 414, 429, 451}

\* isPermanentHTTPError with the server errors in the list
isPermanentHTTPError_with5xx(statusCode) ==
    statusCode \in {400, 401, 403, 404, 405, 410, 414, 451, 500, 502, 503}

\* isPermanentHTTPError
isPermanentHTTPError(statusCode) ==
    statusCode \in {400, 401, 403, 404, 405, 410, 414, 451}

\* ------------------------------------------- the state table's operations
\* Each takes the item under the key and whether the call fails on the way,
\* and gives [ok, item]: the call's success and the item afterwards.

\* claimURL without its ConditionExpression
claimURL_unconditional(item, fail) ==
    IF ~fail
    THEN [ok |-> TRUE,
          item |-> [item EXCEPT !.status = stateProcessing, !.attempts = @ + 1]]
    ELSE [ok |-> FALSE, item |-> item]

\* claimURL with the condition "#s <> :processing"
claimURL_notProcessing(item, fail) ==
    IF ~fail /\ item.status # stateProcessing
    THEN [ok |-> TRUE,
          item |-> [item EXCEPT !.status = stateProcessing, !.attempts = @ + 1]]
    ELSE [ok |-> FALSE, item |-> item]

\* claimURL that adds the attempt and leaves the status as it is
claimURL_keepsStatus(item, fail) ==
    IF ~fail /\ item.status = stateQueued
    THEN [ok |-> TRUE, item |-> [item EXCEPT !.attempts = @ + 1]]
    ELSE [ok |-> FALSE, item |-> item]

\* claimURL that returns true whatever the error of the update
claimURL_ignoresError(item, fail) ==
    IF ~fail /\ item.status = stateQueued
    THEN [ok |-> TRUE,
          item |-> [item EXCEPT !.status = stateProcessing, !.attempts = @ + 1]]
    ELSE [ok |-> TRUE, item |-> item]

\* claimURL with the condition "#s IN (:queued, :processing)"
claimURL_orProcessing(item, fail) ==
    IF ~fail /\ item.status \in {stateQueued, stateProcessing}
    THEN [ok |-> TRUE,
          item |-> [item EXCEPT !.status = stateProcessing, !.attempts = @ + 1]]
    ELSE [ok |-> FALSE, item |-> item]

\* claimURL: SET status = processing ADD attempts 1, IF status = queued
claimURL(item, fail) ==
    IF ~fail /\ item.status = stateQueued
    THEN [ok |-> TRUE,
          item |-> [item EXCEPT !.status = stateProcessing, !.attempts = @ + 1]]
    ELSE [ok |-> FALSE, item |-> item]

\* markStatus: SET status, finished_at (no condition: UpdateItem upserts)
markStatus(item, status, fail) ==
    IF fail THEN [ok |-> FALSE, item |-> item]
    ELSE [ok |-> TRUE, item |-> [item EXCEPT !.status = status]]

\* the reset of handleRateLimited, also starting the attempts over
resetToQueued_clearsAttempts(item, fail) ==
    IF fail THEN [ok |-> FALSE, item |-> item]
    ELSE [ok |-> TRUE, item |-> [item EXCEPT !.status = stateQueued, !.attempts = 0]]

\* the UpdateItem of handleRateLimited: SET status = queued (no condition)
resetToQueued(item, fail) ==
    IF fail THEN [ok |-> FALSE, item |-> item]
    ELSE [ok |-> TRUE, item |-> [item EXCEPT !.status = stateQueued]]

\* saveFetchResult that takes every fetch it is given for a success
saveFetchResult_alwaysDone(item, result, fail) ==
    IF fail THEN [ok |-> FALSE, item |-> item]
    ELSE [ok |-> TRUE,
          item |-> [item EXCEPT !.status = stateDone, !.expires = TRUE,
                                !.http = result.StatusCode]]

\* a saveFetchResult that returns before its write has reached the store
saveFetchResult_notWritten(item, result, fail) ==
    IF fail THEN [ok |-> FALSE, item |-> item] ELSE [ok |-> TRUE, item |-> item]

\* saveFetchResult: SET status = done | failed, expires_at, http_status and
\* the other fetch metadata (no condition)
saveFetchResult(item, result, fail) ==
    IF fail THEN [ok |-> FALSE, item |-> item]
    ELSE [ok |-> TRUE,
          item |-> [item EXCEPT
                      !.status = IF result.Success THEN stateDone ELSE stateFailed,
                      !.expires = TRUE,
                      !.http = result.StatusCode]]

\* saveS3Keys: SET s3_bucket, s3_raw_key, s3_text_key (no condition)
saveS3Keys(item, fail) ==
    IF fail THEN [ok |-> FALSE, item |-> item]
    ELSE [ok |-> TRUE,
          item |-> [item EXCEPT
                      !.s3 = TRUE,
                      !.status = IF @ = Absent THEN NoStatus ELSE @]]

\* the PutItem of a URL item without its ConditionExpression
putURL_unconditional(item, fail) ==
    IF ~fail
    THEN [ok |-> TRUE, item |-> [EmptyItem EXCEPT !.status = stateQueued]]
    ELSE [ok |-> FALSE, item |-> item]

\* a PutItem whose error on a new item goes unnoticed
putURL_errorIgnored(item, fail) ==
    IF item.status = Absent
    THEN [ok |-> TRUE,
          item |-> IF fail THEN item ELSE [EmptyItem EXCEPT !.status = stateQueued]]
    ELSE [ok |-> FALSE, item |-> item]

\* a PutItem that also succeeds over a record that is still queued
putURL_overQueued(item, fail) ==
    IF ~fail /\ item.status \in {Absent, stateQueued}
    THEN [ok |-> TRUE, item |-> [EmptyItem EXCEPT !.status = stateQueued]]
    ELSE [ok |-> FALSE, item |-> item]

\* the PutItem of enqueueLinks and of the producer: IF attribute_not_exists
putURL(item, fail) ==
    IF ~fail /\ item.status = Absent
    THEN [ok |-> TRUE, item |-> [EmptyItem EXCEPT !.status = stateQueued]]
    ELSE [ok |-> FALSE, item |-> item]

\* a checkRateLimit that is switched off by a delay of zero only
checkRateLimit_zeroOnly(last, nowMs, delayMs, fail) ==
    IF delayMs = 0
    THEN [ok |-> TRUE, called |-> FALSE, last |-> last]
    ELSE IF ~fail /\ (last = NoRec \/ last < nowMs - delayMs)
    THEN [ok |-> TRUE, called |-> TRUE, last |-> nowMs]
    ELSE [ok |-> FALSE, called |-> TRUE, last |-> last]

\* a checkRateLimit that lets the URL through when its PutItem is refused
checkRateLimit_failOpen(last, nowMs, delayMs, fail) ==
    IF delayMs <= 0
    THEN [ok |-> TRUE, called |-> FALSE, last |-> last]
    ELSE IF ~fail /\ (last = NoRec \/ last < nowMs - delayMs)
    THEN [ok |-> TRUE, called |-> TRUE, last |-> nowMs]
    ELSE [ok |-> TRUE, called |-> TRUE, last |-> last]

\* checkRateLimit whose PutItem has no ConditionExpression
checkRateLimit_unconditional(last, nowMs, delayMs, fail) ==
    IF delayMs <= 0
    THEN [ok |-> TRUE, called |-> FALSE, last |-> last]
    ELSE IF ~fail
    THEN [ok |-> TRUE, called |-> TRUE, last |-> nowMs]
    ELSE [ok |-> FALSE, called |-> TRUE, last |-> last]

\* checkRateLimit, given the domain item's last_crawled_at: allowed without a
\* call when the delay is <= 0; else PutItem last_crawled_at = now
\* IF attribute_not_exists OR last_crawled_at < now - crawlDelayMs
checkRateLimit(last, nowMs, delayMs, fail) ==
    IF delayMs <= 0
    THEN [ok |-> TRUE, called |-> FALSE, last |-> last]
    ELSE IF ~fail /\ (last = NoRec \/ last < nowMs - delayMs)
    THEN [ok |-> TRUE, called |-> TRUE, last |-> nowMs]
    ELSE [ok |-> FALSE, called |-> TRUE, last |-> last]

\* isDomainAllowed: GetItem, true iff the item's status is active
isDomainAllowed(status, fail) == ~fail /\ status = domainStatusActive

\* a maybeAddDomain that reports every host as added
maybeAddDomain_always(status, fail) == [ok |-> TRUE, status |-> status]

\* maybeAddDomain: PutItem status = active IF attribute_not_exists
maybeAddDomain(status, fail) ==
    IF ~fail /\ status = "none"
    THEN [ok |-> TRUE, status |-> domainStatusActive]
    ELSE [ok |-> FALSE, status |-> status]

\* ------------------------------------------------- enqueueLinks' batches
\* a batch loop that sends all pending links in one call
batchEnd_whole(i, n) == n

\* the end of the batch that starts after the i-th of n pending links:
\* end = i + sqsBatchSize, cut to len(pending)
batchEnd(i, n) == IF i + sqsBatchSize > n THEN n ELSE i + sqsBatchSize

\* a count that takes every entry of a call that returned no error
countEnqueued_ignoresFailed(enqueued, size, err, failed) ==
    IF err THEN enqueued ELSE enqueued + size

\* enqueued after one SendMessageBatch of size entries: unchanged when the
\* call returned an error, else enqueued += len(batch) - len(result.Failed)
countEnqueued(enqueued, size, err, failed) ==
    IF err THEN enqueued ELSE enqueued + size - failed

\* no call of enqueueLinks in progress
NoFan == [pc |-> "idle", pending |-> <<>>, i |-> 0, calls |-> <<>>,
          enqueued |-> 0, taken |-> <<>>]

\* ------------------------------------------------------------ the parser
\* A node of the tree html.Parse returns: a text node with its data, or an
\* element with its tag, its first href attribute and its children.
NoHref == [scheme |-> "-", host |-> "", path |-> "", frag |-> ""]
TextNode(data) == [type |-> "text", data |-> data, href |-> NoHref, kids |-> <<>>]
ElementNode(tag, href, kids) ==
    [type |-> "element", data |-> tag, href |-> href, kids |-> kids]

\* href values: "/x", "/x#f", "#top"
Hrefs == {[scheme |-> "", host |-> "", path |-> "/x", frag |-> ""],
          [scheme |-> "", host |-> "", path |-> "/x", frag |-> "f"],
          [scheme |-> "", host |-> "", path |-> "", frag |-> "top"]}
\* base URLs: "https://h1" and one that url.Parse rejects
BadURL == [scheme |-> "%", host |-> "", path |-> "", frag |-> ""]
BaseURLs == {[scheme |-> "https", host |-> "h1", path |-> "", frag |-> ""], BadURL}
TextData == {" t", " "}
\* an anchor, and an element that the text extraction skips with all below it
Tags == {"a", "style"}
SkippedTags == {"script", "style", "noscript", "head", "meta", "link"}

\* the most children an element has, and the levels of elements in the body
MaxKids == 2
MaxNest == 2

SeqsUpTo(S, n) == UNION {[1..k -> S] : k \in 0..n}
Elements(kidsets) ==
    {ElementNode("a", h, ks) : h \in Hrefs, ks \in kidsets}
      \cup {ElementNode("style", NoHref, ks) : ks \in kidsets}
RECURSIVE Nodes(_)
Nodes(level) ==
    IF level = 0 THEN {}
    ELSE {TextNode(d) : d \in TextData}
           \cup Elements(SeqsUpTo(Nodes(level - 1), MaxKids))
\* the bodies: the children of <body> in the tree html.Parse returns
Bodies == SeqsUpTo(Nodes(MaxNest), MaxKids)

NoPage == [body |-> <<>>, base |-> BadURL]
NoParse == [done |-> FALSE, combined |-> [Links |-> <<>>, Text |-> <<>>],
            links |-> <<>>, text |-> <<>>]

\* strings.TrimSpace on the text data
TrimSpace(d) == IF d = " " THEN "" ELSE IF d = " t" THEN "t" ELSE d
\* url.Parse: whether the URL parses
ParsesURL(u) == u.scheme # "%"

\* urls.Normalize: the absolute URL of a href (scheme, host, path), "" for
\* a href that is skipped
Normalize(href, baseURL) ==
    IF href.scheme = "" /\ href.host = "" /\ href.path = "" THEN ""
    ELSE IF href.scheme \in {"javascript", "mailto", "tel", "data"} THEN ""
    ELSE IF ~ParsesURL(href) THEN ""
    ELSE LET resolved ==
               IF href.scheme # "" THEN href
               ELSE [scheme |-> baseURL.scheme,
                     host |-> IF href.host # "" THEN href.host ELSE baseURL.host,
                     path |-> href.path, frag |-> href.frag]
         IN IF resolved.scheme \notin {"http", "https"} THEN ""
            ELSE <<resolved.scheme, resolved.host, resolved.path>>

\* the link an <a> element adds to links, given the links seen so far
addLink(n, baseURL, links) ==
    IF n.type = "element" /\ n.data = "a" /\ n.href # NoHref
    THEN LET link == Normalize(n.href, baseURL)
         IN IF link # "" /\ ~Contains(links, link) THEN Append(links, link)
            ELSE links
    ELSE links

\* the text a text node adds to the builder: the pieces are joined by " "
addText(n, sb) ==
    IF n.type = "text" /\ TrimSpace(n.data) # "" THEN Append(sb, TrimSpace(n.data))
    ELSE sb

\* traverse of extractLinks, over the siblings ns from the i-th on
RECURSIVE linksTraverse(_, _, _, _)
linksTraverse(ns, i, baseURL, links) ==
    IF i > Len(ns) THEN links
    ELSE linksTraverse(ns, i + 1, baseURL,
           linksTraverse(ns[i].kids, 1, baseURL, addLink(ns[i], baseURL, links)))

extractLinks(body, baseURL) ==
    IF ~ParsesURL(baseURL) THEN <<>> ELSE linksTraverse(body, 1, baseURL, <<>>)

\* extractNode of extractText
RECURSIVE extractNode(_, _, _)
extractNode(ns, i, sb) ==
    IF i > Len(ns) THEN sb
    ELSE IF ns[i].type = "element" /\ ns[i].data \in SkippedTags
    THEN extractNode(ns, i + 1, sb)
    ELSE extractNode(ns, i + 1, extractNode(ns[i].kids, 1, addText(ns[i], sb)))

extractText(body) == extractNode(body, 1, <<>>)

\* traverse of Extract: links and text in one pass
RECURSIVE traverse(_, _, _, _)
traverse(ns, i, baseURL, r) ==
    IF i > Len(ns) THEN r
    ELSE IF ns[i].type = "element" /\ ns[i].data \in SkippedTags
    THEN traverse(ns, i + 1, baseURL, r)
    ELSE traverse(ns, i + 1, baseURL,
           traverse(ns[i].kids, 1, baseURL,
             [Links |-> addLink(ns[i], baseURL, r.Links),
              Text |-> addText(ns[i], r.Text)]))

Extract(body, baseURL) ==
    IF ~ParsesURL(baseURL) THEN [Links |-> <<>>, Text |-> <<>>]
    ELSE traverse(body, 1, baseURL, [Links |-> <<>>, Text |-> <<>>])

\* ------------------------------------------- NewCrawler: CRAWL_DELAY_MS
DigitVal == [c \in {"0", "1", "2", "3", "4", "5", "6", "7", "8", "9"} |->
               CASE c = "0" -> 0 [] c = "1" -> 1 [] c = "2" -> 2 [] c = "3" -> 3
                 [] c = "4" -> 4 [] c = "5" -> 5 [] c = "6" -> 6 [] c = "7" -> 7
                 [] c = "8" -> 8 [] c = "9" -> 9]

RECURSIVE Decimal(_)
Decimal(ds) ==
    IF ds = <<>> THEN 0
    ELSE 10 * Decimal(SubSeq(ds, 1, Len(ds) - 1)) + DigitVal[ds[Len(ds)]]

\* strconv.Atoi: an optional sign, then one or more decimal digits
Atoi(s) ==
    LET signed == Len(s) > 0 /\ s[1] \in {"-", "+"}
        ds == IF signed THEN Tail(s) ELSE s
    IN IF ds = <<>> \/ \E i \in 1..Len(ds) : ds[i] \notin DOMAIN DigitVal
       THEN [ok |-> FALSE, n |-> 0]
       ELSE [ok |-> TRUE,
             n |-> IF signed /\ s[1] = "-" THEN 0 - Decimal(ds) ELSE Decimal(ds)]

\* NewCrawler's crawlDelayMs: the default, replaced by the value of a set
\* variable that parses and is not negative
NewCrawlerDelay(text) ==
    IF text = <<>> THEN defaultCrawlDelay
    ELSE LET parsed_ == Atoi(text) IN
         IF parsed_.ok /\ parsed_.n >= 0 THEN parsed_.n ELSE defaultCrawlDelay

\* ------------------------------------------------------------------- Init
\* The state after the stack is deployed and NewCrawler has run: an empty
\* table and queue, the configuration read from the environment.
Start(trace, ws, limit, faults) ==
    /\ rec = [u \in URLS |-> EmptyItem]
    /\ dom = [d \in DOMAINS |-> NoRec]
    /\ allow \in [HOSTS -> AllowStatuses]
    /\ web \in WEBS
    /\ queue = {}
    /\ now = 0
    /\ maxDepth \in MaxDepths
    /\ tracing = trace
    /\ running = ws
    /\ batchLimit = limit
    /\ budget = faults
    /\ pc = [w \in WORKERS |-> "idle"]
    /\ batch = [w \in WORKERS |-> <<>>]
    /\ idx = [w \in WORKERS |-> 0]
    /\ loc = [w \in WORKERS |-> InitLoc]
    /\ log = [w \in WORKERS |-> <<>>]
    /\ prod = [pc |-> "idle", url |-> ""]
    /\ obs = [u \in URLS |-> NoObs]
    /\ resv = [d \in DOMAINS |-> <<>>]

\* NewCrawler's empty robots cache
NoRobots ==
    /\ robotsCache = [d \in {} |-> "none"]
    /\ robotsRet = [domain |-> "", outcome |-> "", rules |-> "none"]
\* nothing handed to the parser, no request made
NoInput ==
    /\ page = NoPage /\ parsed = NoParse /\ established = {} /\ lastErr = "none"
    /\ fan = NoFan
    /\ classified = [statusCode |-> 0, asked |-> FALSE, permanent |-> FALSE]

\* the delay NewCrawler takes from the environment
Configured == env \in EnvTexts /\ crawlDelayMs = NewCrawlerDelay(env)
\* the site of one seed, and an allowlist without records
OneSeed == web = "loop" /\ allow = [h \in HOSTS |-> "none"]
Plain == Configured /\ crawlDelayMs \in CrawlDelays /\ OneSeed
Parts == NoRobots /\ NoInput

\* the workers race, one message per invocation
Init == Start(FALSE, WORKERS, 1, MaxFaults) /\ Plain /\ Parts

\* one worker alone, batches of messages, the log of each invocation kept
InitSolo == Start(TRUE, {"w1"}, MaxBatch, MaxFaults) /\ Plain /\ Parts

\* the workers race and no call to a collaborator fails
InitLive == Start(FALSE, WORKERS, 1, 0) /\ Plain /\ Parts

\* the site of two seeds with a common link, no call fails: the workers race
\* without a rate limit and the host has any allowlist record or none, or one
\* worker crawls it under the rate limit
InitFork ==
    /\ \/ Start(FALSE, WORKERS, 1, 0) /\ Configured /\ crawlDelayMs = 0
       \/ /\ Start(FALSE, {"w1"}, 1, 0) /\ Configured /\ crawlDelayMs = 1
          /\ allow = [h \in HOSTS |-> "none"]
    /\ Parts /\ web = "fork" /\ maxDepth = 1

\* one worker started with any text in CRAWL_DELAY_MS; no call fails
InitEnv == Start(TRUE, {"w1"}, 1, 0) /\ Configured /\ OneSeed /\ Parts

\* one worker built as the tests build it, the delay set on the field
InitTest ==
    /\ Start(TRUE, {"w1"}, 1, 0) /\ OneSeed /\ Parts
    /\ env = <<>> /\ crawlDelayMs \in TestDelays

\* a worker that takes no invocation, the configuration fixed
Parked == Start(FALSE, {}, 1, 0) /\ Plain /\ crawlDelayMs = 0 /\ maxDepth = 1

\* --------------------------------------- environment: calls that fail
\* the outcomes a call to a collaborator can have now, and what one costs
Fails == IF budget > 0 THEN BOOLEAN ELSE {FALSE}
Spend(fail) == budget' = IF fail THEN budget - 1 ELSE budget

\* ------------------------------------------------- environment: the clock
Tick ==
    /\ crawlDelayMs > 0      \* nothing reads the clock when rate limiting is off
    /\ now < MaxTime
    /\ now' = now + 1
    /\ UNCHANGED <<storeVars, queue, cfgVars, budget, workerVars, prod, obs, resv>>

\* what time.Now() gave a worker whose call reaches the table now
ClockLags == {0, 1}
ClockReads == {now - g : g \in {g \in ClockLags : g <= now}}

\* ------------------------------------------------------- SQS: SendMessage
\* Delivery is at least once: a visible message may be delivered any number
\* of times before a delivery hides it (duplicates of the standard queue,
\* visibility timeouts running out).  So the queue is the set of the messages
\* with a visible copy: how many copies there are changes nothing.
Send(q, ms) == q \cup ms

\* ------------------------------------------------------ producer/main.go
\* 1) dedup via conditional put; "URL already seen" ends the run
ProducerPut(u) ==
    /\ prod.pc = "idle"
    /\ LET r == putURL(rec[u], FALSE) IN
         /\ r.ok      \* a run whose put is refused or fails changes nothing
         /\ rec' = [rec EXCEPT ![u] = r.item]
         /\ prod' = [pc |-> "send", url |-> u]
    /\ UNCHANGED <<dom, allow, queue, now, cfgVars, budget, workerVars, obs, resv>>

\* 2) enqueue: SendMessage with the URL as body and no attribute; an error panics
ProducerSend ==
    /\ prod.pc = "send"
    /\ \E fail \in Fails :
         LET m == [url |-> prod.url, depth |-> <<>>] IN
         /\ Spend(fail)
         /\ queue' = IF fail THEN queue ELSE Send(queue, {m})
    /\ prod' = [pc |-> "idle", url |-> ""]
    /\ UNCHANGED <<storeVars, now, cfgVars, workerVars, obs, resv>>

\* --------------------------------------------------- the transport (SQS)
\* the event source hands a worker a batch of visible messages, in any order;
\* each is hidden by the delivery or stays visible
Receive(w) ==
    /\ w \in running
    /\ pc[w] = "idle"
    /\ \E n \in 1..batchLimit : \E b \in [1..n -> queue] :
         /\ \A i, j \in 1..n : i # j => b[i] # b[j]
         /\ \E hidden \in SUBSET {b[i] : i \in 1..n} : queue' = queue \ hidden
         /\ batch' = [batch EXCEPT ![w] = b]
    /\ idx' = [idx EXCEPT ![w] = 1]
    /\ pc' = [pc EXCEPT ![w] = "claim"]
    /\ log' = [log EXCEPT ![w] = <<>>]
    /\ loc' = [loc EXCEPT ![w] = InitLoc]
    /\ UNCHANGED <<storeVars, now, cfgVars, budget, prod, obs, resv>>

\* Handler's return value: errors are logged, the return is always nil
HandlerReturn(w) == Nil

\* The event source mapping on the invocation's return (no
\* ReportBatchItemFailures): success deletes the batch, an error would leave
\* every message of it to become visible again.
EventSourceAck(w) ==
    /\ pc[w] = "returned"
    /\ queue' = IF HandlerReturn(w) = Nil
                THEN queue
                ELSE Send(queue, {batch[w][i] : i \in 1..Len(batch[w])})
    /\ pc' = [pc EXCEPT ![w] = "idle"]
    /\ batch' = [batch EXCEPT ![w] = <<>>]
    /\ idx' = [idx EXCEPT ![w] = 0]
    /\ log' = [log EXCEPT ![w] = <<>>]
    /\ loc' = [loc EXCEPT ![w] = InitLoc]
    /\ UNCHANGED <<storeVars, now, cfgVars, budget, prod, obs, resv>>

\* --------------------------------------------- lambda: Handler's loop body
\* what the pipeline did with one message and what it returned
Entry(l, won, err, requeued) ==
    [url |-> l.url, won |-> won, fetch |-> l.result, writes |-> l.writes,
     err |-> err, requeued |-> requeued, resetApplied |-> l.resetApplied,
     applied |-> l.applied, calls |-> l.calls, depth |-> l.depth,
     enqueued |-> l.enqueued, rules |-> l.rules, fanout |-> l.li > 0,
     upload |-> l.upload, requeue |-> l.requeue]

\* the locals with one more call of a kind counted, when the log is kept
Count(l, kind) == IF tracing THEN [l EXCEPT !.calls[kind] = @ + 1] ELSE l

\* a Handler that returns at the first error of processMessage
Finish_stopsOnError(w, entry) ==
    /\ log' = [log EXCEPT ![w] = IF tracing THEN Append(@, entry) ELSE @]
    /\ loc' = [loc EXCEPT ![w] = InitLoc]
    /\ idx' = [idx EXCEPT ![w] = IF @ < Len(batch[w]) /\ entry.err = Nil
                                 THEN @ + 1 ELSE @]
    /\ pc' = [pc EXCEPT ![w] = IF idx[w] < Len(batch[w]) /\ entry.err = Nil
                               THEN "claim" ELSE "returned"]
    /\ UNCHANGED batch

\* processMessage returns: Handler logs the error and goes on with the next
\* record, or returns when there is none
Finish(w, entry) ==
    /\ log' = [log EXCEPT ![w] = IF tracing THEN Append(@, entry) ELSE @]
    /\ loc' = [loc EXCEPT ![w] = InitLoc]
    /\ idx' = [idx EXCEPT ![w] = IF @ < Len(batch[w]) THEN @ + 1 ELSE @]
    /\ pc' = [pc EXCEPT ![w] = IF idx[w] < Len(batch[w]) THEN "claim" ELSE "returned"]
    /\ UNCHANGED batch

Goto(w, p, l) ==
    /\ pc' = [pc EXCEPT ![w] = p]
    /\ loc' = [loc EXCEPT ![w] = l]
    /\ UNCHANGED <<batch, idx, log>>

\* the text of the error of a retriable failure:
\* "retriable failure for %s: status=%d err=%s"
RetriableErr(u, result) ==
    <<"retriable", " failure for ", u, ": status=", Itoa(result.StatusCode),
      " err=", result.Error>>

\* processMessage up to the claim: LOST race returns nil
ProcessClaim(w) ==
    /\ pc[w] = "claim"
    /\ LET m == batch[w][idx[w]]
           u == m.url
       IN \E fail \in Fails :
            LET r == claimURL(rec[u], fail)
                l == Count([InitLoc EXCEPT !.url = u, !.depth = extractDepth(m),
                                           !.applied = (r.item # rec[u])], "ddb")
            IN
            /\ r.ok => rec[u].attempts < MaxAttempts
            /\ Spend(fail)
            /\ rec' = [rec EXCEPT ![u] = r.item]
            /\ obs' = [obs EXCEPT ![u] =
                         IF fail THEN @
                         ELSE IF r.ok
                              THEN [@ EXCEPT !.claims = @ + 1, !.epochWon = @ + 1]
                              ELSE [@ EXCEPT !.epochLost = 1,
                                             !.lateLost = IF obs[u].retriable THEN 1 ELSE 0]]
            /\ IF r.ok THEN Goto(w, "robots", l)
                       ELSE Finish(w, Entry(l, FALSE, Nil, FALSE))
    /\ UNCHANGED <<dom, allow, queue, now, cfgVars, prod, resv>>

\* What getRobots gives for the URL's site: no rules (no robots.txt, or its
\* fetch or parse failed), rules that allow the URL's path, rules that deny it
RobotsRules == {"none", "allow", "deny"}

\* isAllowedByRobots that lets every URL through
isAllowedByRobots_always(rules) == TRUE

\* isAllowedByRobots: allowed without rules, else what the rules say
isAllowedByRobots(rules) == rules = "none" \/ rules = "allow"

\* processMessage: the robots check
ProcessRobots(w) ==
    /\ pc[w] = "robots"
    /\ \E rules \in RobotsRules :
         LET l == [loc[w] EXCEPT !.rules = IF tracing THEN rules ELSE @] IN
         Goto(w, IF isAllowedByRobots(rules) THEN "rate" ELSE "mark",
              Count(l, "robots"))
    /\ UNCHANGED <<storeVars, queue, now, cfgVars, budget, prod, obs, resv>>

\* blocked by robots.txt: return c.markStatus(ctx, urlHash, stateRobotsBlocked)
ProcessMark(w) ==
    /\ pc[w] = "mark"
    /\ LET u == loc[w].url IN
       \E fail \in Fails :
         LET r == markStatus(rec[u], stateRobotsBlocked, fail)
             l == Count([loc[w] EXCEPT !.writes = IF r.ok THEN @ + 1 ELSE @], "ddb")
         IN /\ Spend(fail)
            /\ rec' = [rec EXCEPT ![u] = r.item]
            /\ obs' = [obs EXCEPT ![u].terminals = IF r.ok THEN @ + 1 ELSE @]
            /\ Finish(w, Entry(l, TRUE, IF r.ok THEN Nil ELSE ErrDynamo, FALSE))
    /\ UNCHANGED <<dom, allow, queue, now, cfgVars, prod, resv>>

\* checkRateLimit on the URL's domain; rate limited goes to handleRateLimited
ProcessRate(w) ==
    /\ pc[w] = "rate"
    /\ LET d == GetDomain(loc[w].url) IN
       \E fail \in Fails, t \in ClockReads :
         LET r == checkRateLimit(dom[d], t, crawlDelayMs, fail) IN
         /\ Spend(fail /\ r.called)
         /\ dom' = [dom EXCEPT ![d] = r.last]
         /\ resv' = [resv EXCEPT ![d] = IF r.ok /\ r.called THEN Append(@, t) ELSE @]
         /\ Goto(w, IF r.ok THEN "fetch" ELSE "reset",
                 IF r.called THEN Count(Count(loc[w], "ddb"), "rate") ELSE loc[w])
    /\ UNCHANGED <<rec, allow, queue, now, cfgVars, prod, obs>>

\* handleRateLimited, first call: reset to queued, the error is dropped
ProcessReset(w) ==
    /\ pc[w] = "reset"
    /\ LET u == loc[w].url IN
       \E fail \in Fails :
         LET r == resetToQueued(rec[u], fail)
             l == Count([loc[w] EXCEPT !.writes = IF r.ok THEN @ + 1 ELSE @,
                                       !.resetApplied = r.ok], "ddb")
         IN /\ Spend(fail)
            /\ rec' = [rec EXCEPT ![u] = r.item]
            /\ obs' = [obs EXCEPT ![u] =
                         IF r.ok THEN [@ EXCEPT !.epochWon = 0, !.epochLost = 0] ELSE @]
            /\ Goto(w, "requeue", l)
    /\ UNCHANGED <<dom, allow, queue, now, cfgVars, prod, resv>>

\* handleRateLimited's delaySeconds: crawlDelayMs / 1000, at least 1
delaySeconds(delayMs) == IF delayMs \div 1000 < 1 THEN 1 ELSE delayMs \div 1000

\* a requeueWithDelay that passes the delay on as it is given
requeueWithDelay_uncapped(urlStr, depth, delay) ==
    [MessageBody |-> urlStr, depth |-> depth, DelaySeconds |-> delay]

\* requeueWithDelay: the SendMessageInput, the delay cut to the queue's maximum
requeueWithDelay(urlStr, depth, delay) ==
    [MessageBody |-> urlStr, depth |-> depth,
     DelaySeconds |-> IF delay > sqsMaxDelaySeconds THEN sqsMaxDelaySeconds
                      ELSE delay]

\* handleRateLimited, second call: requeueWithDelay sends the URL with its
\* depth and a delay; its error is processMessage's return
ProcessRequeue(w) ==
    /\ pc[w] = "requeue"
    /\ LET in == requeueWithDelay(loc[w].url, loc[w].depth,
                                  delaySeconds(crawlDelayMs))
           m == [url |-> in.MessageBody, depth |-> <<in.depth>>]
           l == Count([loc[w] EXCEPT !.requeue = IF tracing THEN Append(@, in)
                                                 ELSE @], "sqs")
       IN \E fail \in Fails :
            /\ Spend(fail)
            /\ queue' = IF fail THEN queue ELSE Send(queue, {m})
            /\ Finish(w, Entry(l, TRUE, IF fail THEN ErrSQS ELSE Nil, ~fail))
    /\ UNCHANGED <<storeVars, now, cfgVars, prod, obs, resv>>

\* is the failed fetch one that processMessage saves as failed
isPermanentFailure(result) ==
    result.StatusCode > 0 /\ isPermanentHTTPError(result.StatusCode)

\* fetchURL and the classification of a failure
ProcessFetch(w) ==
    /\ pc[w] = "fetch"
    /\ \E result \in FetchResults :
         LET l == Count([loc[w] EXCEPT !.result = result], "fetch") IN
         IF ~result.Success /\ ~isPermanentFailure(result)
         THEN /\ obs' = [obs EXCEPT ![l.url].retriable = TRUE]
              /\ Finish(w, Entry(l, TRUE, RetriableErr(l.url, result), FALSE))
         ELSE /\ UNCHANGED obs
              /\ Goto(w, "save", l)
    /\ UNCHANGED <<storeVars, queue, now, cfgVars, budget, prod, resv>>

\* a fan-out condition that takes the page at the maximum depth too
shouldFanOut_inclusive(depth, max, links) == depth <= max /\ Len(links) > 0

\* a fan-out condition that leaves the depth out
shouldFanOut_always(depth, max, links) == Len(links) > 0

\* processHTMLContent: depth < c.maxDepth && len(parsed.Links) > 0
shouldFanOut(depth, max, links) == depth < max /\ Len(links) > 0

\* processHTMLContent after the upload: fan-out runs below maxDepth when the
\* page has links; l is the locals and o the effect count of the URL after
\* the step so far
AfterArchive(w, l, o) ==
    LET u == l.url IN
    IF shouldFanOut(l.depth, maxDepth, PageLinks(u))
    THEN /\ obs' = [obs EXCEPT ![u] = [o EXCEPT !.fanouts = @ + 1]]
         /\ Goto(w, "fo_allowed", [l EXCEPT !.li = 1])
    ELSE /\ obs' = [obs EXCEPT ![u] = o]
         /\ Finish(w, Entry(l, TRUE, Nil, FALSE))

\* a pipeline that goes on to processHTMLContent whatever the save returned
stopsAfterSave_ignoresError(result, saved) == ~result.Success \/ ~result.html

\* whether processMessage is done once saveFetchResult has returned: after
\* a permanent failure, after a save that failed, and for content that
\* processHTMLContent leaves at once (not HTML, or empty)
stopsAfterSave(result, saved) == ~result.Success \/ ~saved \/ ~result.html

\* saveFetchResult of a permanent failure (its result is returned) or of a
\* success (its error is returned; else processHTMLContent, which stops at
\* once on a page that is not HTML or is empty)
ProcessSave(w) ==
    /\ pc[w] = "save"
    /\ LET u == loc[w].url
           result == loc[w].result
       IN \E fail \in Fails :
            LET r == saveFetchResult(rec[u], result, fail)
                l == Count([loc[w] EXCEPT !.writes = IF r.ok THEN @ + 1 ELSE @], "ddb")
                err == IF r.ok THEN Nil ELSE ErrDynamo
            IN /\ Spend(fail)
               /\ rec' = [rec EXCEPT ![u] = r.item]
               /\ obs' = [obs EXCEPT ![u].terminals = IF r.ok THEN @ + 1 ELSE @]
               /\ IF stopsAfterSave(result, r.ok)
                  THEN Finish(w, Entry(l, TRUE, err, FALSE))
                  ELSE Goto(w, "upload", l)
    /\ UNCHANGED <<dom, allow, queue, now, cfgVars, prod, resv>>

\* an uploadContent that returns the error of the raw upload alone
uploadContent_rawOnly(rawFails, textFails) == rawFails

\* uploadContent: whether g.Wait returns an error, given which of the two
\* PutObject calls of the errgroup fail
uploadContent(rawFails, textFails) == rawFails \/ textFails

\* which of the two uploads failed
UploadOutcome(rawFails, textFails) ==
    IF rawFails /\ textFails THEN "both"
    ELSE IF rawFails THEN "raw" ELSE IF textFails THEN "text" ELSE "ok"

\* a processHTMLContent that returns when the upload failed
stopsAfterUpload_onError(err) == err

\* whether processHTMLContent returns once uploadContent has returned: the
\* error is logged and the fan-out condition comes next either way
stopsAfterUpload(err) == FALSE

\* uploadContent: the two PutObject calls; on an error the keys are not
\* saved and processHTMLContent goes on
ProcessUpload(w) ==
    /\ pc[w] = "upload"
    /\ LET u == loc[w].url IN
       \E rawFails \in Fails, textFails \in Fails :
         LET l == Count([loc[w] EXCEPT
                           !.upload = IF tracing
                                      THEN UploadOutcome(rawFails, textFails)
                                      ELSE @], "s3")
         IN /\ Spend(rawFails \/ textFails)
            /\ IF uploadContent(rawFails, textFails)
               THEN IF stopsAfterUpload(TRUE)
                    THEN UNCHANGED obs /\ Finish(w, Entry(l, TRUE, Nil, FALSE))
                    ELSE AfterArchive(w, l, obs[u])
               ELSE /\ obs' = [obs EXCEPT ![u].archives = @ + 1]
                    /\ Goto(w, "s3keys", l)
    /\ UNCHANGED <<storeVars, queue, now, cfgVars, prod, resv>>

\* saveS3Keys: best effort, then the fan-out
ProcessS3Keys(w) ==
    /\ pc[w] = "s3keys"
    /\ LET u == loc[w].url IN
       \E fail \in Fails :
         /\ Spend(fail)
         /\ rec' = [rec EXCEPT ![u] = saveS3Keys(rec[u], fail).item]
         /\ AfterArchive(w, Count(loc[w], "ddb"), obs[u])
    /\ UNCHANGED <<dom, allow, queue, now, cfgVars, prod, resv>>

\* ------------------------------------------------- lambda: enqueueLinks
Min(a, b) == IF a < b THEN a ELSE b

\* the end of the loop body over links: the next link, or the batch sends
NextLink(w, l) ==
    IF l.li < Len(PageLinks(l.url))
    THEN Goto(w, "fo_allowed", [l EXCEPT !.li = @ + 1])
    ELSE IF l.pending = <<>>
    THEN Finish(w, Entry(l, TRUE, Nil, FALSE))
    ELSE Goto(w, "fo_send", l)

\* isDomainAllowed on the link's host
FanoutAllowed(w) ==
    /\ pc[w] = "fo_allowed"
    /\ LET h == GetHost(PageLinks(loc[w].url)[loc[w].li]) IN
       \E fail \in Fails :
         /\ Spend(fail)
         /\ Goto(w, IF isDomainAllowed(allow[h], fail) THEN "fo_put" ELSE "fo_add",
                 Count(loc[w], "ddb"))
    /\ UNCHANGED <<storeVars, queue, now, cfgVars, prod, obs, resv>>

\* maybeAddDomain: a new host goes on, a known one skips the link
FanoutAddDomain(w) ==
    /\ pc[w] = "fo_add"
    /\ LET h == GetHost(PageLinks(loc[w].url)[loc[w].li]) IN
       \E fail \in Fails :
         LET r == maybeAddDomain(allow[h], fail) IN
         /\ Spend(fail)
         /\ allow' = [allow EXCEPT ![h] = r.status]
         /\ IF r.ok THEN Goto(w, "fo_put", Count(loc[w], "ddb"))
                    ELSE NextLink(w, Count(loc[w], "ddb"))
    /\ UNCHANGED <<rec, dom, queue, now, cfgVars, prod, obs, resv>>

\* the conditional PutItem of the link's item: inserted links are pending
FanoutPut(w) ==
    /\ pc[w] = "fo_put"
    /\ LET link == PageLinks(loc[w].url)[loc[w].li] IN
       \E fail \in Fails :
         LET r == putURL(rec[link], fail) IN
         /\ Spend(fail)
         /\ rec' = [rec EXCEPT ![link] = r.item]
         /\ NextLink(w, Count([loc[w] EXCEPT
                                   !.pending = IF r.ok THEN Append(@, link) ELSE @],
                               "ddb"))
    /\ UNCHANGED <<dom, allow, queue, now, cfgVars, prod, obs, resv>>

\* a batch loop that sends a batch again when its call returned an error
batchNext_retry(i, end, err) == IF err THEN i ELSE end

\* where the batch loop goes on after a call: i += sqsBatchSize, on an error
\* too (continue)
batchNext(i, end, err) == end

\* one SendMessageBatch of up to sqsBatchSize pending links at depth + 1: the
\* call fails as a whole, or the queue takes every entry but the failed ones
FanoutSend(w) ==
    /\ pc[w] = "fo_send"
    /\ LET l == loc[w]
           end == batchEnd(l.sent, Len(l.pending))
           b == SubSeq(l.pending, l.sent + 1, end)
       IN \E callFails \in Fails :
          \E failed \in (IF callFails \/ budget = 0 THEN {{}} ELSE SUBSET (1..Len(b))) :
            LET taken == IF callFails THEN {} ELSE (1..Len(b)) \ failed
                next == batchNext(l.sent, end, callFails)
                l2 == Count([l EXCEPT !.sent = next,
                                      !.enqueued = countEnqueued(@, Len(b), callFails,
                                                                 Cardinality(failed))],
                            "sqs")
            IN /\ Spend(callFails \/ failed # {})
               /\ queue' = Send(queue, {[url |-> b[j], depth |-> <<l.depth + 1>>] :
                                             j \in taken})
               /\ IF next < Len(l.pending)
                  THEN Goto(w, "fo_send", l2)
                  ELSE Finish(w, Entry(l2, TRUE, Nil, FALSE))
    /\ UNCHANGED <<storeVars, now, cfgVars, prod, obs, resv>>

\* ------------------------------------------------------------------- Next
\* an invocation of a worker: the event source starts it, Handler runs the
\* pipeline on each record, the event source takes the return
WorkerStep(w) ==
         \/ Receive(w)
         \/ EventSourceAck(w)
         \/ ProcessClaim(w)
         \/ ProcessRobots(w)
         \/ ProcessMark(w)
         \/ ProcessRate(w)
         \/ ProcessReset(w)
         \/ ProcessRequeue(w)
         \/ ProcessFetch(w)
         \/ ProcessSave(w)
         \/ ProcessUpload(w)
         \/ ProcessS3Keys(w)
         \/ FanoutAllowed(w)
         \/ FanoutAddDomain(w)
         \/ FanoutPut(w)
         \/ FanoutSend(w)

Next ==
    \/ Tick
    \/ \E u \in Seeds : ProducerPut(u)
    \/ ProducerSend
    \/ \E w \in WORKERS : WorkerStep(w)

Spec == Init /\ [][Next]_vars

\* the same program, one worker at a time, with the log of each invocation
SpecSolo == InitSolo /\ [][Next]_vars

\* A Lambda invocation runs to its return (or to its 30 s timeout): every
\* worker that has a step to take takes one.
SpecLive == InitLive /\ [][Next]_vars /\ \A w \in WORKERS : WF_vars(WorkerStep(w))

\* the crawl of the site with a common link
SpecFork == InitFork /\ [][Next]_vars
SpecEnv == InitEnv /\ [][Next]_vars
SpecTest == InitTest /\ [][Next]_vars
\* ------------------------------------------------ the robots.txt cache
\* maxRobotsCacheSize is 1000 in the deployment; the cache is checked at a
\* small capacity with more domains than it holds
maxRobotsCacheSize == 2
SITES == {"https://s1", "https://s2", "https://s3", "https://s4"}

\* where a lookup that misses the cache ends in getRobots: the early SSRF
\* check, building the request, the GET, the status, reading the body,
\* parsing it, or the rules loaded
RobotsOutcomes == {"ssrf", "request", "do", "status", "read", "parse", "loaded"}

\* a cache that takes no entry
cachePut_dropped(cache, d, rules) == cache

cachePut(cache, d, rules) ==
    [k \in DOMAIN cache \cup {d} |-> IF k = d THEN rules ELSE cache[k]]

\* evictRobotsCacheIfFull: nothing below the capacity, else the first key the
\* map iteration gives is deleted; the caches it can leave
evictRobotsCacheIfFull(cache) ==
    IF Cardinality(DOMAIN cache) < maxRobotsCacheSize \/ DOMAIN cache = {}
    THEN {cache}
    ELSE {[d \in DOMAIN cache \ {k} |-> cache[d]] : k \in DOMAIN cache}

\* getRobots for a URL of domain d: a cached entry (nil included) is
\* returned; a failed fetch caches nil; loaded rules are cached after
\* evictRobotsCacheIfFull
getRobots(d, outcome, rules) ==
    /\ IF d \in DOMAIN robotsCache
       THEN /\ robotsRet' = [domain |-> d, outcome |-> "cached",
                             rules |-> robotsCache[d]]
            /\ UNCHANGED robotsCache
       ELSE IF outcome # "loaded"
       THEN /\ robotsCache' = cachePut(robotsCache, d, "none")
            /\ robotsRet' = [domain |-> d, outcome |-> outcome, rules |-> "none"]
       ELSE /\ \E c \in evictRobotsCacheIfFull(robotsCache) :
                 robotsCache' = cachePut(c, d, rules)
            /\ robotsRet' = [domain |-> d, outcome |-> outcome, rules |-> rules]
    /\ UNCHANGED <<crawlVars, classified, page, parsed, established, lastErr, fan>>

InitRobots == Parked /\ NoRobots /\ NoInput

NextRobots ==
    \E d \in SITES, outcome \in RobotsOutcomes, rules \in RobotsRules \ {"none"} :
      getRobots(d, outcome, rules)

\* lookups of robots rules, one after the other, on one worker's cache
SpecRobots == InitRobots /\ [][NextRobots]_vars

\* ------------------------------------------------------ parsing a page
\* every body and base URL of the bounded sets, nothing parsed yet
InitParser ==
    /\ Parked /\ NoRobots
    /\ page \in [body : Bodies, base : BaseURLs]
    /\ parsed = NoParse
    /\ established = {} /\ lastErr = "none" /\ fan = NoFan
    /\ classified = [statusCode |-> 0, asked |-> FALSE, permanent |-> FALSE]

\* the page goes through Extract, and through extractLinks and extractText
Parse ==
    /\ ~parsed.done
    /\ parsed' = [done |-> TRUE,
                  combined |-> Extract(page.body, page.base),
                  links |-> extractLinks(page.body, page.base),
                  text |-> extractText(page.body)]
    /\ UNCHANGED <<crawlVars, classified, robotsCache, robotsRet, page, established, lastErr, fan>>

SpecParser == InitParser /\ [][Parse]_vars

\* ------------------------------------------------------ the HTTP client
\* the addresses a host name can resolve to, one of each kind
ADDRS == {"public", "private", "loopback", "linklocal", "unspecified"}

\* ssrf.IsPrivateIP / isPrivateIP
IsPrivateIP(ip) == ip \in {"loopback", "private", "linklocal", "unspecified"}

\* what net.LookupHost answers for a name: addresses, or {} for an error;
\* the answer is the name's owner's to give, and may differ at each lookup
DNSAnswers == {{}} \cup {{a} : a \in ADDRS} \cup {{"public", "loopback"}}

\* the hosts of URLs: an IP literal or a name
HOSTNAMES == {"name"}
IsLiteral(host) == host \in ADDRS

\* validateHost / ssrf.ValidateHost, the early check: the error, or Nil
validateHost(host, answer) ==
    IF IsLiteral(host)
    THEN IF IsPrivateIP(host) THEN <<"blocked">> ELSE Nil
    ELSE IF answer = {} THEN <<"lookup">>
    ELSE IF \E a \in answer : IsPrivateIP(a) THEN <<"blocked">>
    ELSE Nil

\* the Control function of the dialer of ssrf.NewTransport: the error, or Nil
dialControl(ip) == IF IsPrivateIP(ip) THEN <<"blocked">> ELSE Nil

\* NewCrawler builds &http.Client{Timeout, CheckRedirect}: no Transport is
\* given, so the client dials through http.DefaultTransport and no Control
\* function runs
httpClientControl(ip) == Nil

\* c.httpClient.Do for one request of the given kind: the name is resolved
\* again, and the connection to the address ip of the answer is made unless
\* the transport's Control function refuses it
httpClientDo(kind, host, answer, ip) ==
    IF ~IsLiteral(host) /\ answer = {}
    THEN /\ lastErr' = "lookup"
         /\ UNCHANGED established
    ELSE IF httpClientControl(ip) # Nil
    THEN /\ lastErr' = "dial"
         /\ UNCHANGED established
    ELSE /\ established' = established \cup {<<kind, ip>>}
         /\ lastErr' = "none"

\* the addresses the dialer can connect to: the literal, or one of the
\* addresses the name resolves to now
Dialed(host, answer) ==
    IF IsLiteral(host) THEN {host} ELSE IF answer = {} THEN {"none"} ELSE answer

\* fetchURL (kind "page") and the fetch of getRobots (kind "robots"): the
\* early check, then the GET; redirects are not followed
Request(kind, host, early, late, ip) ==
    /\ ip \in Dialed(host, late)
    /\ IF validateHost(host, early) # Nil
       THEN /\ lastErr' = "ssrf"
            /\ UNCHANGED established
       ELSE httpClientDo(kind, host, late, ip)
    /\ UNCHANGED <<crawlVars, classified, robotsCache, robotsRet, page, parsed, fan>>

InitClient == Parked /\ NoRobots /\ NoInput

NextClient ==
    \E kind \in {"page", "robots"}, host \in ADDRS \cup HOSTNAMES,
       early \in DNSAnswers, late \in DNSAnswers :
      \E ip \in Dialed(host, late) : Request(kind, host, early, late, ip)

\* the requests of one worker, with the DNS answers of each
SpecClient == InitClient /\ [][NextClient]_vars

\* ------------------------------------------- the batch loop of enqueueLinks
\* the most links of one page that pass the dedup
MaxLinks == 25

\* the entries SendMessageBatch can report in result.Failed: none, the
\* first, the last, all
FailedSets(size) == {{}, {1}, {size}, 1..size}

\* enqueueLinks comes to its batch loop with n pending links, the ones the
\* loop over links inserted; with none it returns 0
EnqueueLinksPending(n) ==
    /\ fan.pc = "idle"
    /\ fan' = [NoFan EXCEPT !.pc = IF n = 0 THEN "returned" ELSE "send",
                            !.pending = [k \in 1..n |-> k]]
    /\ UNCHANGED <<crawlVars, classified, robotsCache, robotsRet, page, parsed, established,
                   lastErr>>

\* one turn of the batch loop: the entries pending[i:end] go in one
\* SendMessageBatch; it returns an error and the queue takes nothing, or
\* the queue takes the entries that are not in result.Failed
EnqueueLinksSend(err, failed) ==
    /\ fan.pc = "send"
    /\ LET end == batchEnd(fan.i, Len(fan.pending))
           b == SubSeq(fan.pending, fan.i + 1, end)
           bad == IF err THEN 1..Len(b) ELSE failed \cap (1..Len(b))
       IN /\ failed \in FailedSets(Len(b))
          /\ fan' = [fan EXCEPT
                       !.i = end,
                       !.calls = Append(@, [entries |-> b, err |-> err,
                                            failed |-> IF err THEN {} ELSE failed]),
                       !.enqueued = countEnqueued(@, Len(b), err, Cardinality(failed)),
                       !.taken = @ \o SelectSeq(b, LAMBDA x : \A j \in bad : b[j] # x),
                       !.pc = IF end < Len(fan.pending) THEN "send" ELSE "returned"]
    /\ UNCHANGED <<crawlVars, classified, robotsCache, robotsRet, page, parsed, established,
                   lastErr>>

\* enqueueLinks returns enqueued
EnqueueLinksReturn ==
    /\ fan.pc = "returned"
    /\ fan' = NoFan
    /\ UNCHANGED <<crawlVars, classified, robotsCache, robotsRet, page, parsed, established,
                   lastErr>>

InitLinks == Parked /\ NoRobots /\ NoInput

NextLinks ==
    \/ \E n \in 0..MaxLinks : EnqueueLinksPending(n)
    \/ \E err \in BOOLEAN, failed \in SUBSET (1..sqsBatchSize) :
         EnqueueLinksSend(err, failed)
    \/ EnqueueLinksReturn

\* calls of enqueueLinks, one after the other
SpecLinks == InitLinks /\ [][NextLinks]_vars

\* ----------------------------------------------- classifying a status
\* every status code, not yet classified
InitStatus ==
    /\ Parked /\ NoRobots
    /\ page = NoPage /\ parsed = NoParse /\ established = {} /\ lastErr = "none"
    /\ fan = NoFan
    /\ classified \in [statusCode : 0..MaxStatus, asked : {FALSE},
                        permanent : {FALSE}]

\* processMessage asks isPermanentHTTPError about the status of the result
Classify ==
    /\ ~classified.asked
    /\ classified' = [classified EXCEPT
                         !.asked = TRUE,
                         !.permanent = isPermanentHTTPError(classified.statusCode)]
    /\ UNCHANGED <<crawlVars, partVars>>

SpecStatus == InitStatus /\ [][Classify]_vars

\* ============================================================ properties
\* the positions of processMessage at which the worker acts on its claim
HolderPcs == {"robots", "mark", "rate", "reset", "fetch", "save", "upload",
              "s3keys", "fo_allowed", "fo_add", "fo_put", "fo_send"}
Holds(w, u) == pc[w] \in HolderPcs /\ loc[w].url = u

\* the message the worker is on, once Handler has taken it up
Current(w) == batch[w][idx[w]]

\* ---- C1: of the claims the store has evaluated on a URL record since it
\* was last queued, exactly one got true and every other one got false; so
\* at most one worker acts on the record at a time.  (A claim whose call
\* the store never evaluated, a failed call, is no part of the race.)
C1_ExactlyOneClaimWins ==
    \A u \in URLS :
      /\ (obs[u].epochWon > 0 \/ obs[u].epochLost = 1) => obs[u].epochWon = 1
      /\ Cardinality({w \in WORKERS : Holds(w, u)}) <= 1

\* two workers were handed the message of the same queued URL: one holds
\* the claim, the other one lost it and returned
C1_Witness ==
    \E u \in URLS : \E w1, w2 \in WORKERS :
      /\ w1 # w2
      /\ Holds(w1, u)
      /\ pc[w2] = "returned" /\ Current(w2).url = u
      /\ rec[u].attempts = 1
      /\ obs[u].epochWon = 1 /\ obs[u].epochLost = 1

\* ---- C2: whatever number of times the message of a URL is delivered
\* (duplicates, the delayed copy of a rate-limit requeue), its terminal
\* status is written at most once, its content is archived at most once and
\* its links are fanned out at most once.
C2_EffectsAtMostOnce ==
    \A u \in URLS :
      obs[u].terminals <= 1 /\ obs[u].archives <= 1 /\ obs[u].fanouts <= 1

\* a URL that was requeued by the rate limit, claimed again from the delayed
\* copy, saved and archived, and whose message was then delivered once more;
\* and a URL that was fanned out
C2_Witness ==
    /\ \E u \in URLS :
         /\ obs[u].claims = 2 /\ obs[u].epochLost = 1
         /\ obs[u].terminals = 1 /\ obs[u].archives = 1
    /\ \E v \in URLS : obs[v].fanouts = 1

\* ---- C3: once the status of a URL record is done, failed or
\* robots_blocked, no step changes it (and no step removes the record: that
\* is left to the table's TTL).
C3_TerminalIsFinal ==
    [][\A u \in URLS :
         rec[u].status \in Terminal => rec'[u].status = rec[u].status]_vars

\* a record with a terminal status on which writes still arrive: the archive
\* keys were saved after it, and a worker is about to claim it again
C3_Witness ==
    \E u \in URLS : \E w \in WORKERS :
      /\ rec[u].status \in Terminal /\ rec[u].s3
      /\ pc[w] = "claim" /\ Current(w).url = u

\* ---- C4: every change of a record's status is an edge of the state
\* machine: absent to queued (the insertion), queued to processing in the
\* claim step, processing to a terminal status, and processing to queued in
\* the reset step of the rate-limit path.
C4_StatusFollowsEdges ==
    [][\A u \in URLS :
         LET old == rec[u].status
             new == rec'[u].status
         IN old # new =>
              \/ old = Absent /\ new = stateQueued
              \/ /\ old = stateQueued /\ new = stateProcessing
                 /\ \E w \in WORKERS :
                      pc[w] = "claim" /\ Current(w).url = u /\ pc'[w] = "robots"
              \/ old = stateProcessing /\ new \in Terminal
              \/ /\ old = stateProcessing /\ new = stateQueued
                 /\ \E w \in WORKERS :
                      pc[w] = "reset" /\ loc[w].url = u /\ pc'[w] = "requeue"]_vars

\* a record that took every kind of edge: inserted, claimed, reset by the
\* rate limit, claimed again, finished
C4_Witness ==
    \E u \in URLS : rec[u].status \in Terminal /\ rec[u].attempts = 2

\* ---- C5: no URL record stays in processing forever: a record that is in
\* processing leaves it (for a terminal status, or for queued on the
\* rate-limit path).  Every record that is to reach a terminal status must
\* do so.
C5_ProcessingIsLeft ==
    \A u \in URLS :
      (rec[u].status = stateProcessing) ~> (rec[u].status # stateProcessing)

\* ---- C6: a message for which processMessage returned an error after its
\* fetch (a retriable failure, or the result could not be saved) is visible
\* in the queue again once the event source has taken the invocation's
\* return, so that it is delivered again.
C6_FailedMessageIsRedelivered ==
    [][\A w \in WORKERS :
         pc[w] = "returned" /\ pc'[w] = "idle" =>
           \A i \in 1..Len(log[w]) :
             log[w][i].err # Nil /\ log[w][i].fetch # NoResult
               => batch[w][i] \in queue']_vars

\* ---- C7: the attempts of a URL record is the number of the claims that
\* succeeded on it.
C7_AttemptsCountClaims ==
    \A u \in URLS : rec[u].attempts = obs[u].claims

\* a record claimed twice, with a reset to queued in between, then saved and
\* its archive keys saved
C7_Witness ==
    \E u \in URLS :
      rec[u].attempts = 2 /\ rec[u].status = stateDone /\ rec[u].s3

\* ---- C8: with a delay above 0, any two successful reservations of a
\* domain are at least the delay apart.
C8_ReservationsSpaced ==
    crawlDelayMs > 0 =>
      \A d \in DOMAINS : \A i, j \in 1..Len(resv[d]) :
        i < j => resv[d][j] - resv[d][i] >= crawlDelayMs

\* two reservations of a domain were made, and a URL was refused one in
\* between: it was requeued and claimed again
C8_Witness ==
    /\ crawlDelayMs > 0
    /\ \E d \in DOMAINS : Len(resv[d]) >= 2
    /\ \E u \in URLS : obs[u].claims = 2

\* ---- C9: a run of the rate-limit path that has sent the delayed copy of
\* the URL has set the URL's record back to queued.
C9_RequeuedIsReset ==
    \A w \in WORKERS : \A i \in 1..Len(log[w]) :
      log[w][i].requeued => log[w][i].resetApplied

\* ---- C10: a run whose fetch failed with a server error, 429 or no status
\* at all (network error, SSRF block) wrote no status, left the record in
\* processing and returned an error that has "retriable" and the URL in it.
RetriableCase(result) ==
    /\ ~result.Success
    /\ result.StatusCode >= 500 \/ result.StatusCode = 429 \/ result.StatusCode = 0

C10_RetriableFailure ==
    \A w \in WORKERS : \A i \in 1..Len(log[w]) :
      LET e == log[w][i] IN
      RetriableCase(e.fetch) =>
        /\ e.writes = 0
        /\ rec[e.url].status = stateProcessing
        /\ Contains(e.err, "retriable") /\ Contains(e.err, e.url)

\* Handler has run a batch in which a fetch got a 500 and processMessage
\* returned an error
C10_Witness ==
    \E w \in WORKERS :
      /\ pc[w] = "returned"
      /\ \E i \in 1..Len(log[w]) :
           log[w][i].fetch.StatusCode = 500 /\ log[w][i].err # Nil

PermanentCase(result) ==
    ~result.Success /\ result.StatusCode \in {400, 401, 403, 404, 405, 410, 414, 451}

C12_PermanentFailureSaved ==
    \A w \in WORKERS : \A i \in 1..Len(log[w]) :
      LET e == log[w][i] IN
      PermanentCase(e.fetch) =>
        \/ /\ e.err = Nil /\ e.writes = 1
           /\ rec[e.url].status = stateFailed
           /\ rec[e.url].http = e.fetch.StatusCode
        \/ /\ e.err = ErrDynamo /\ e.writes = 0
           /\ rec[e.url].status = stateProcessing

\* Handler has run a message whose fetch got a 404, and the save succeeded
C12_Witness ==
    \E w \in WORKERS :
      /\ pc[w] = "returned"
      /\ \E i \in 1..Len(log[w]) :
           log[w][i].fetch.StatusCode = 404 /\ log[w][i].err = Nil

\* C12 as the spec states it: every such run saves the record as failed with
\* the HTTP status and returns nil
C12_AsStated ==
    \A w \in WORKERS : \A i \in 1..Len(log[w]) :
      LET e == log[w][i] IN
      PermanentCase(e.fetch) =>
        /\ e.err = Nil
        /\ rec[e.url].status = stateFailed
        /\ rec[e.url].http = e.fetch.StatusCode

\* ---- C13: a run whose conditional update of the claim was not applied
\* (claimURL returned false) returns nil after that one call to the table:
\* no robots lookup, rate-limit reservation, fetch, status write, upload or
\* send was made.
C13_ClaimLostStops ==
    \A w \in WORKERS : \A i \in 1..Len(log[w]) :
      LET e == log[w][i] IN
      ~e.applied =>
        /\ ~e.won /\ e.err = Nil
        /\ e.calls = [NoCalls EXCEPT !.ddb = 1]
        /\ e.writes = 0 /\ e.fetch = NoResult /\ ~e.requeued

\* Handler has run a message whose claim was lost to an earlier claim of the
\* same URL
C13_Witness ==
    \E w \in WORKERS :
      /\ pc[w] = "returned"
      /\ \E i \in 1..Len(log[w]) :
           /\ ~log[w][i].applied
           /\ rec[log[w][i].url].attempts >= 1
           /\ obs[log[w][i].url].epochLost = 1

\* ---- C14: a run for whose URL the robots rules said no made no fetch, no
\* rate-limit reservation, no upload and no send; after the claim its only
\* call to the table is the one that marks the record robots_blocked.
C14_RobotsDeniedNotFetched ==
    \A w \in WORKERS : \A i \in 1..Len(log[w]) :
      LET e == log[w][i] IN
      e.rules = "deny" =>
        /\ e.calls = [NoCalls EXCEPT !.ddb = 2, !.robots = 1]
        /\ e.fetch = NoResult /\ ~e.requeued
        /\ \/ e.err = Nil /\ e.writes = 1 /\ rec[e.url].status = stateRobotsBlocked
           \/ e.err = ErrDynamo /\ e.writes = 0

\* Handler has run a message whose URL the robots rules deny, and the record
\* is robots_blocked
C14_Witness ==
    \E w \in WORKERS :
      /\ pc[w] = "returned"
      /\ \E i \in 1..Len(log[w]) :
           /\ log[w][i].rules = "deny" /\ log[w][i].err = Nil
           /\ rec[log[w][i].url].status = stateRobotsBlocked

\* ---- C15: Handler runs processMessage once on each record of the batch, in
\* the batch's order, whatever the runs before returned: while it is on record
\* i the log holds the runs of records 1..i-1, when it returns the log holds
\* one run per record, and its return is nil.
C15_HandlerRunsEveryMessage ==
    \A w \in WORKERS :
      pc[w] # "idle" =>
        /\ Len(log[w]) = (IF pc[w] = "returned" THEN Len(batch[w]) ELSE idx[w] - 1)
        /\ \A i \in 1..Len(log[w]) :
             /\ log[w][i].url = batch[w][i].url
             /\ log[w][i].depth = extractDepth(batch[w][i])
        /\ pc[w] = "returned" => HandlerReturn(w) = Nil

\* Handler has returned from a batch of two records of which the first one's
\* run returned an error
C15_Witness ==
    \E w \in WORKERS :
      /\ pc[w] = "returned" /\ Len(batch[w]) = 2 /\ Len(log[w]) = 2
      /\ log[w][1].err # Nil

\* a run that fetched an HTML page with a body and saved the result, so that
\* processHTMLContent got to its fan-out condition
FetchedHTML(e) == e.fetch.Success /\ e.fetch.html /\ e.err = Nil /\ e.writes = 1

\* ---- C19: a run that fetched and saved a non-empty HTML page (with links)
\* at depth d ran enqueueLinks iff d < maxDepth, and every message a
\* SendMessageBatch of enqueueLinks puts in the queue carries depth d + 1.
C19_FanoutBelowMaxDepth ==
    /\ [](\A w \in WORKERS : \A i \in 1..Len(log[w]) :
            LET e == log[w][i] IN
            FetchedHTML(e) /\ Len(PageLinks(e.url)) > 0
              => (e.fanout <=> e.depth < maxDepth))
    /\ [][\A w \in WORKERS :
            pc[w] = "fo_send" =>
              \A m \in queue' \ queue : m.depth = <<loc[w].depth + 1>>]_vars

\* a seed was fetched at depth 0 and fanned out, its link was fetched from
\* the message of depth 1, the maximum, and was not fanned out
C19_Witness ==
    \E w \in WORKERS : \E i \in 1..Len(log[w]) :
      /\ FetchedHTML(log[w][i]) /\ ~log[w][i].fanout
      /\ log[w][i].depth = 1 /\ maxDepth = 1
      /\ obs["u1"].fanouts = 1

\* ---- C20: MAX_DEPTH is an exclusive bound on the depth at which fan-out
\* runs: a run that fetched and saved an HTML page whose depth is maxDepth
\* (or more) did not run enqueueLinks and sent nothing.
C20_NoFanoutAtMaxDepth ==
    \A w \in WORKERS : \A i \in 1..Len(log[w]) :
      LET e == log[w][i] IN
      FetchedHTML(e) /\ e.depth >= maxDepth =>
        ~e.fanout /\ e.calls.sqs = 0 /\ e.enqueued = 0

\* a page with links was fetched and saved at the depth that MAX_DEPTH gives
C20_Witness ==
    \E w \in WORKERS : \E i \in 1..Len(log[w]) :
      /\ FetchedHTML(log[w][i]) /\ Len(PageLinks(log[w][i].url)) > 0
      /\ log[w][i].depth = maxDepth /\ pc[w] = "returned"

\* C20 as the spec states it: the page at depth MAX_DEPTH is fanned out
C20_AsStated ==
    \A w \in WORKERS : \A i \in 1..Len(log[w]) :
      LET e == log[w][i] IN
      FetchedHTML(e) /\ Len(PageLinks(e.url)) > 0 /\ e.depth = maxDepth
        => e.fanout

\* ---- C17: after any sequence of getRobots calls the robots cache holds at
\* most maxRobotsCacheSize entries.
C17_CacheWithinCap == Cardinality(DOMAIN robotsCache) <= maxRobotsCacheSize

\* ---- C18: for every body and base URL, Extract returns the links, in
\* order, that extractLinks returns and the text that extractText returns.
C18_ExtractMatchesSeparate ==
    parsed.done =>
      /\ parsed.combined.Links = parsed.links
      /\ parsed.combined.Text = parsed.text

\* ---- C16: the HTTP client never establishes a connection to a private,
\* loopback, link-local or unspecified address, for page fetches and
\* robots.txt fetches alike, whatever the name resolves to at connect time.
C16_NoPrivateConnection ==
    \A c \in established : ~IsPrivateIP(c[2])

\* the entries of the calls, one after the other
RECURSIVE AllEntries(_)
AllEntries(calls) ==
    IF calls = <<>> THEN <<>>
    ELSE AllEntries(SubSeq(calls, 1, Len(calls) - 1)) \o calls[Len(calls)].entries

\* ---- C21: enqueueLinks sends its n pending links in ceil(n/10)
\* SendMessageBatch calls, in list order, every call with at most 10 entries
\* and every call but the last with exactly 10.
C21_BatchesOfTen ==
    fan.pc = "returned" =>
      LET n == Len(fan.pending) IN
      /\ Len(fan.calls) = (n + 9) \div 10
      /\ AllEntries(fan.calls) = fan.pending
      /\ \A k \in 1..Len(fan.calls) :
           /\ Len(fan.calls[k].entries) <= 10
           /\ k < Len(fan.calls) => Len(fan.calls[k].entries) = 10

\* 25 links have gone out in calls of 10, 10 and 5
C21_Witness ==
    /\ fan.pc = "returned" /\ Len(fan.pending) = 25
    /\ Len(fan.calls) = 3
    /\ Len(fan.calls[1].entries) = 10
    /\ Len(fan.calls[2].entries) = 10
    /\ Len(fan.calls[3].entries) = 5

\* ---- C22: the number enqueueLinks returns is the number of links the
\* queue accepted: the entries of the calls that returned no error, less
\* the ones reported in Failed; a call that failed as a whole counts nothing.
C22_ReturnsAcceptedCount ==
    fan.pc = "returned" =>
      /\ fan.enqueued = Len(fan.taken)
      /\ \A k \in 1..Len(fan.calls) :
           fan.calls[k].err =>
             \A j \in 1..Len(fan.calls[k].entries) :
               ~Contains(fan.taken, fan.calls[k].entries[j])

\* a call failed as a whole, another reported one entry failed, and the
\* rest was accepted
C22_Witness ==
    /\ fan.pc = "returned" /\ Len(fan.calls) = 3
    /\ fan.calls[1].err
    /\ ~fan.calls[2].err /\ Cardinality(fan.calls[2].failed) = 1
    /\ ~fan.calls[3].err /\ fan.calls[3].failed = {}
    /\ fan.enqueued = 14

\* the positions of a worker inside enqueueLinks
FanoutPcs == {"fo_allowed", "fo_add", "fo_put", "fo_send"}
\* the links worker w has inserted in the enqueueLinks call it is in
Pending(w) == IF pc[w] \in FanoutPcs THEN loc[w].pending ELSE <<>>
\* the link worker w is at in its loop over links
LinkAt(w) == PageLinks(loc[w].url)[loc[w].li]

\* ---- C23: of the workers that fan out the same link, the one whose
\* PutItem found no record inserts the queued record and is the only one to
\* send a message for the link; a worker that finds a record, in whatever
\* status, does not take the link and sends nothing for it.
C23_OneEnqueuerPerLink ==
    /\ [](\A u \in URLS :
            Cardinality({w \in WORKERS : Contains(Pending(w), u)}) <= 1)
    /\ [][\A w \in WORKERS :
            /\ pc[w] = "fo_put" /\ pc'[w] # "fo_put" =>
                 IF rec[LinkAt(w)].status = Absent
                 THEN /\ rec'[LinkAt(w)].status = stateQueued
                      /\ Pending(w)' = Append(Pending(w), LinkAt(w))
                 ELSE /\ rec'[LinkAt(w)] = rec[LinkAt(w)]
                      /\ pc'[w] \in FanoutPcs => Pending(w)' = Pending(w)
                      /\ queue' = queue
            /\ pc[w] = "fo_send" /\ pc'[w] # "fo_send" =>
                 \A m \in queue' \ queue : Contains(Pending(w), m.url)]_vars

\* two workers are in enqueueLinks for the same link: one has inserted it
\* and not sent it yet, the other is at its PutItem
C23_Witness ==
    \E w1, w2 \in WORKERS :
      /\ w1 # w2
      /\ pc[w1] = "fo_send" /\ loc[w1].pending = <<"u3">>
      /\ pc[w2] = "fo_put" /\ LinkAt(w2) = "u3"
      /\ rec["u3"].status = stateQueued

\* ---- C24: enqueueLinks inserts no URL record and sends no message for a
\* link whose host has an allowlist record with status paused or blocked.
C24_BlockedHostNotEnqueued ==
    /\ \A w \in WORKERS :
         /\ pc[w] = "fo_put" =>
              allow[GetHost(LinkAt(w))] \notin {"paused", "blocked"}
         /\ \A i \in 1..Len(Pending(w)) :
              allow[GetHost(Pending(w)[i])] \notin {"paused", "blocked"}
    /\ \A u \in URLS \ Seeds :
         allow[GetHost(u)] \in {"paused", "blocked"} =>
           /\ rec[u].status = Absent
           /\ \A m \in queue : m.url # u

\* the page of a seed was saved and its fan-out met a link on a blocked host;
\* the worker is out of enqueueLinks again
C24_Witness ==
    /\ allow["h1"] = "blocked"
    /\ obs["u1"].fanouts = 1 /\ rec["u1"].status = stateDone
    /\ \A w \in WORKERS : pc[w] \notin FanoutPcs

\* ---- C25: while a worker is in the fan-out of a page, from the first
\* allowlist lookup to the last batch send, the page's record has the
\* terminal status done, written by this run's saveFetchResult: the terminal
\* write comes before any child record is inserted and any child message is
\* sent.
C25_TerminalBeforeFanout ==
    \A w \in WORKERS :
      pc[w] \in FanoutPcs =>
        /\ rec[loc[w].url].status = stateDone
        /\ obs[loc[w].url].terminals = 1

\* a worker is at the PutItem of a child whose record does not exist yet
C25_Witness ==
    \E w \in WORKERS :
      /\ pc[w] = "fo_put" /\ loc[w].pending = <<>>
      /\ rec[LinkAt(w)].status = Absent
      /\ rec[loc[w].url].status = stateDone

\* ---- C26: a run whose fetch succeeded and whose saveFetchResult failed
\* returns the store's error, uploads nothing to the archive and fans out no
\* link.
C26_SaveFailureStops ==
    \A w \in WORKERS : \A i \in 1..Len(log[w]) :
      LET e == log[w][i] IN
      e.fetch # NoResult /\ e.fetch.Success /\ e.writes = 0 =>
        /\ e.err = ErrDynamo
        /\ e.calls.s3 = 0 /\ e.calls.sqs = 0
        /\ ~e.fanout /\ e.enqueued = 0

\* an HTML page with links was fetched at a depth below the maximum and its
\* save failed
C26_Witness ==
    \E w \in WORKERS : \E i \in 1..Len(log[w]) :
      LET e == log[w][i] IN
      /\ e.fetch # NoResult /\ e.fetch.Success /\ e.fetch.html
      /\ e.depth < maxDepth /\ e.writes = 0 /\ e.err = ErrDynamo
      /\ rec[e.url].status = stateProcessing

\* ---- C27: a run in which the raw upload, the text upload or both failed
\* wrote no archive keys to the URL record, counts as not archived, and
\* returned success.
C27_UploadFailsAsAWhole ==
    \A w \in WORKERS : \A i \in 1..Len(log[w]) :
      LET e == log[w][i] IN
      e.upload \in {"raw", "text", "both"} =>
        /\ e.err = Nil
        /\ ~rec[e.url].s3
        /\ obs[e.url].archives = 0
        /\ rec[e.url].status = stateDone

\* the text upload alone failed and the run has returned
C27_Witness ==
    \E w \in WORKERS : \E i \in 1..Len(log[w]) :
      /\ log[w][i].upload = "text" /\ log[w][i].err = Nil
      /\ pc[w] = "returned"

\* ---- C28: every URL record whose status is done, failed or robots_blocked
\* has expires_at set.
C28_TerminalHasExpiry ==
    \A u \in URLS :
      rec[u].status \in {stateDone, stateFailed, stateRobotsBlocked} => rec[u].expires

\* ---- C29: with a crawl delay of zero or less, checkRateLimit lets the URL
\* through (the pipeline goes on to the fetch) and makes no call to the table:
\* the domain's item is as it was and the count of calls has not moved.
C29_NoDelayNoStoreCall ==
    /\ [](crawlDelayMs <= 0 =>
            /\ \A d \in DOMAINS : dom[d] = NoRec
            /\ \A w \in WORKERS : \A i \in 1..Len(log[w]) :
                 log[w][i].calls.rate = 0)
    /\ [][\A w \in WORKERS :
            crawlDelayMs <= 0 /\ pc[w] = "rate" /\ pc'[w] # "rate" =>
              /\ pc'[w] = "fetch"
              /\ dom' = dom
              /\ loc'[w].calls = loc[w].calls]_vars

\* a worker with a negative delay has passed the check and returned
C29_Witness ==
    /\ crawlDelayMs < 0
    /\ \E w \in WORKERS : \E i \in 1..Len(log[w]) :
         log[w][i].calls.fetch > 0 /\ log[w][i].calls.rate = 0

\* ---- C30: a worker started with CRAWL_DELAY_MS set to an integer that is
\* zero or negative has rate limiting disabled: its checkRateLimit never
\* writes a domain's last_crawled_at.
C30_NonPositiveEnvDisables ==
    Atoi(env).ok /\ Atoi(env).n <= 0 => \A d \in DOMAINS : dom[d] = NoRec

\* ---- C31: a run that was rate limited made exactly one SendMessage call:
\* the body is the run's URL, the depth attribute is the depth of the message
\* it was given, and the delay is max(1, crawlDelayMs / 1000) seconds, at most
\* 900; a run that was not rate limited made no such call.
C31_RequeueMessage ==
    \A w \in WORKERS : \A i \in 1..Len(log[w]) :
      LET e == log[w][i]
          secs == crawlDelayMs \div 1000
          want == IF secs < 1 THEN 1 ELSE IF secs > 900 THEN 900 ELSE secs
      IN IF e.won /\ e.calls.rate > 0 /\ e.calls.fetch = 0
         THEN /\ e.requeued
              /\ e.requeue = <<[MessageBody |-> e.url, depth |-> e.depth,
                                DelaySeconds |-> want]>>
              /\ e.calls.sqs = 1
         ELSE e.requeue = <<>> /\ ~e.requeued

\* a worker with a delay above 900 s requeued a URL with the delay cut to 900
C31_Witness ==
    /\ crawlDelayMs \div 1000 > sqsMaxDelaySeconds
    /\ \E w \in WORKERS : \E i \in 1..Len(log[w]) :
         /\ log[w][i].requeued
         /\ log[w][i].requeue[1].DelaySeconds = sqsMaxDelaySeconds

\* a message for URL u is in the queue or with a worker, or is about to be
\* sent by the producer or by a worker's batch loop
InFlight(u) ==
    \/ \E m \in queue : m.url = u
    \/ \E w \in WORKERS : \E i \in 1..Len(batch[w]) : batch[w][i].url = u
    \/ prod.pc = "send" /\ prod.url = u
    \/ \E w \in WORKERS :
         /\ pc[w] = "fo_send"
         /\ \E i \in (loc[w].sent + 1)..Len(loc[w].pending) : loc[w].pending[i] = u
\* the record of u is queued and no message for it is left or to come
Stranded(u) == rec[u].status = stateQueued /\ ~InFlight(u)

\* ---- C32: after a SendMessageBatch that failed as a whole or for some
\* entries, each link of the batch that the queue did not take has its record
\* in status queued and no message; from then on the record is neither
\* deleted nor changed and no message for the link is ever sent.
C32_UnsentLinkStaysQueued ==
    /\ [][\A w \in WORKERS :
            pc[w] = "fo_send" /\ (pc'[w] # "fo_send" \/ loc'[w] # loc[w]) =>
              \A i \in (loc[w].sent + 1)..batchEnd(loc[w].sent, Len(loc[w].pending)) :
                \A u \in URLS :
                  u = loc[w].pending[i] /\ (\A m \in queue' : m.url # u)
                    => Stranded(u)']_vars
    /\ [][\A u \in URLS : Stranded(u) => Stranded(u)' /\ rec'[u] = rec[u]]_vars

\* the one batch call of a fan-out sent nothing, and the link is stranded
C32_Witness ==
    \E w \in WORKERS : \E i \in 1..Len(log[w]) :
      LET e == log[w][i] IN
      /\ e.fanout /\ e.calls.sqs = 1 /\ e.enqueued = 0
      /\ \E j \in 1..Len(PageLinks(e.url)) : Stranded(PageLinks(e.url)[j])

\* ---- C33: a run whose fetch ended with a body read error, whatever the
\* status of the response, wrote no status to the URL record and returned
\* the retriable error.
C33_ReadErrorIsRetriable ==
    \A w \in WORKERS : \A i \in 1..Len(log[w]) :
      LET e == log[w][i] IN
      e.fetch.Error = "read error" =>
        /\ e.err # Nil /\ e.err[1] = "retriable"
        /\ e.writes = 0

\* ---- C34: a run returns as claim-lost (nil, the message acknowledged) only
\* if the record of its URL was not in status queued when claimURL ran.
C34_LostOnlyIfNotQueued ==
    [][\A w \in WORKERS :
         /\ pc[w] = "claim" /\ Len(log'[w]) = Len(log[w]) + 1
         /\ ~log'[w][Len(log'[w])].won
         => rec[Current(w).url].status # stateQueued]_vars

\* ---- C35: with a crawl delay above zero, a run reaches the fetch only from
\* the rate-limit check and only by a step that wrote a new last_crawled_at
\* on the item of the URL's scheme://host; a check that wrote nothing sends
\* the run to handleRateLimited, never to the fetch.
C35_FetchAfterReservation ==
    [][\A w \in WORKERS : \A d \in DOMAINS :
         crawlDelayMs > 0 /\ d = GetDomain(loc[w].url) =>
           /\ pc'[w] = "fetch" /\ pc[w] # "fetch" =>
                /\ pc[w] = "rate"
                /\ dom'[d] # NoRec /\ dom'[d] # dom[d]
                /\ resv'[d] = Append(resv[d], dom'[d])
           /\ pc[w] = "rate" /\ pc'[w] # "rate" /\ dom'[d] = dom[d] =>
                pc'[w] = "reset"]_vars

\* a worker is at the fetch on the second reservation made for the host
C35_Witness ==
    /\ crawlDelayMs > 0
    /\ \E w \in WORKERS :
         /\ pc[w] = "fetch"
         /\ Len(resv[GetDomain(loc[w].url)]) = 2

\* ---- C36: every message in the queue or delivered to a worker has a URL
\* record; a link waiting in a worker's batch loop has its record in status
\* queued, and the messages a batch call adds are for such links only.
C36_RecordBeforeMessage ==
    /\ [](/\ \A m \in queue : rec[m.url].status # Absent
          /\ \A w \in WORKERS :
               /\ \A i \in 1..Len(batch[w]) : rec[batch[w][i].url].status # Absent
               /\ pc[w] \in FanoutPcs =>
                    \A i \in (loc[w].sent + 1)..Len(loc[w].pending) :
                      rec[loc[w].pending[i]].status = stateQueued)
    /\ [][\A w \in WORKERS :
            pc[w] = "fo_send" /\ pc'[w] # "fo_send" =>
              \A m \in queue' \ queue :
                /\ rec[m.url].status = stateQueued
                /\ \E i \in 1..Len(loc[w].pending) : loc[w].pending[i] = m.url]_vars

\* a worker took up the message of a link that a fan-out had sent
C36_Witness ==
    \E w \in WORKERS :
      /\ pc[w] = "claim"
      /\ Current(w).depth = <<1>>
      /\ rec[Current(w).url].status = stateQueued

\* ---- C37: a run whose upload failed, on a page with links at a depth below
\* maxDepth, went on into enqueueLinks at the first link straight from the
\* failed upload, and is on record as a run that fanned out.
C37_FanoutAfterUploadError ==
    /\ [](\A w \in WORKERS : \A i \in 1..Len(log[w]) :
            LET e == log[w][i] IN
            /\ e.upload \in {"raw", "text", "both"}
            /\ e.depth < maxDepth /\ Len(PageLinks(e.url)) > 0
            => e.fanout /\ e.err = Nil)
    /\ [][\A w \in WORKERS :
            /\ pc[w] = "upload" /\ pc'[w] \notin {"upload", "s3keys"}
            /\ loc[w].depth < maxDepth /\ Len(PageLinks(loc[w].url)) > 0
            => /\ pc'[w] = "fo_allowed"
               /\ loc'[w].li = 1 /\ loc'[w].pending = <<>>]_vars

\* after a failed upload the run inserted the page's link and sent its message
C37_Witness ==
    \E w \in WORKERS : \E i \in 1..Len(log[w]) :
      LET e == log[w][i] IN
      /\ e.upload \in {"raw", "text", "both"}
      /\ e.fanout /\ e.enqueued = 1 /\ e.calls.sqs = 1
      /\ \E m \in queue : m.url = PageLinks(e.url)[1] /\ m.depth = <<e.depth + 1>>

\* ---- C38: the seeds carry depth 0 (no attribute), and every message that
\* is in the queue or with a worker, and every message a step adds, carries a
\* depth from 0 to maxDepth: the children of fan-out and the copies that
\* handleRateLimited sends back alike.
C38_DepthWithinMax ==
    /\ [](/\ \A m \in queue : extractDepth(m) \in 0..maxDepth
          /\ \A w \in WORKERS : \A i \in 1..Len(batch[w]) :
               extractDepth(batch[w][i]) \in 0..maxDepth)
    /\ [][\A m \in queue' \ queue : extractDepth(m) \in 0..maxDepth]_vars

\* a message at depth maxDepth was sent back by handleRateLimited
C38_Witness ==
    /\ maxDepth = 1
    /\ \E m \in queue :
         /\ m.depth = <<1>>
         /\ rec[m.url].status = stateQueued /\ rec[m.url].attempts = 1

\* ---- C39: a lookup that misses the cache and whose GET of robots.txt
\* fails, is answered with a non-200 status, or gives a body that cannot be
\* read or parsed, caches the allow-all entry for the domain; a lookup for a
\* domain that has the allow-all entry is answered from the cache, without a
\* fetch, with a return that isAllowedByRobots takes as allowed, and leaves
\* the cache as it is.
C39_FailureCachedAsAllowAll ==
    [][LET d == robotsRet'.domain IN
       /\ d \notin DOMAIN robotsCache
          /\ robotsRet'.outcome \in {"do", "status", "read", "parse"}
          => /\ d \in DOMAIN robotsCache' /\ robotsCache'[d] = "none"
             /\ isAllowedByRobots(robotsRet'.rules)
       /\ d \in DOMAIN robotsCache /\ robotsCache[d] = "none"
          => /\ robotsRet'.outcome = "cached"
             /\ isAllowedByRobots(robotsRet'.rules)
             /\ robotsCache' = robotsCache]_vars

\* a lookup was answered from an allow-all entry that a failed fetch had left
C39_Witness ==
    /\ robotsRet.outcome = "cached" /\ robotsRet.rules = "none"
    /\ robotsRet.domain \in DOMAIN robotsCache
    /\ robotsCache[robotsRet.domain] = "none"

\* ---- C40: isPermanentHTTPError(s) is true when s is 400, 401, 403, 404,
\* 405, 410, 414 or 451 and false for every other status: 0, every 2xx and
\* 3xx, 429, every 5xx and the other 4xx.
C40_PermanentStatuses ==
    classified.asked =>
      LET s == classified.statusCode IN
      /\ classified.permanent <=>
           (s = 400 \/ s = 401 \/ s = 403 \/ s = 404 \/ s = 405 \/ s = 410
              \/ s = 414 \/ s = 451)
      /\ s = 0 \/ s \in 200..399 \/ s = 429 \/ s \in 500..599
           => ~classified.permanent

\* 451 was asked about and is permanent
C40_Witness ==
    classified.asked /\ classified.statusCode = 451 /\ classified.permanent
====
